---- MODULE Spec2Model ----
(***************************************************************************)
(* A model of the SAP HANA check (sap_hana/datadog_checks/sap_hana) and of *)
(* the Fluentd timeout resolution exercised by fluentd/tests/test_unit.py. *)
(*                                                                         *)
(* Spec       : successive check() runs of one SapHanaCheck instance       *)
(* SpecIter   : iter_rows over a cursor, batch by batch                    *)
(* SpecRedact : the failure branch of get_connection (password redaction)  *)
(* SpecConn   : query_connection_overview's aggregation                    *)
(* SpecRatio  : the utilized / usable computations of the metric mappers   *)
(* SpecTimeout: the Fluentd check's timeout resolution                     *)
(***************************************************************************)
EXTENDS Integers, Sequences, FiniteSets, TLC

VARIABLES
    \* ---- SapHanaCheck instance fields ----
    conn,                \* self._conn
    master_hostname,     \* self._master_hostname
    use_hana_hostnames,  \* self._use_hana_hostnames
    \* ---- position inside check() and what the run has done ----
    pc,                  \* "idle" (between runs) or "queries" (inside the for loop)
    idx,                 \* 1-based index of the next query method of the loop
    runs,                \* check() invocations started so far
    attempts,            \* get_connection() calls so far
    last_run,            \* how the latest run ended
    invoked,             \* query methods invoked in the current / latest run
    can_connect,         \* can_connect service checks emitted in the current / latest run
    nErrors,             \* exceptions caught in the current / latest run
    lastLogged,          \* method name given to log.error by the latest step, "" if none
    anyEmission,         \* a gauge or status service check was emitted in the run
    emitted,             \* emissions of the latest query step
    lastCached           \* host of the latest master row that reached the caching line

VARIABLES
    \* ---- iter_rows: the cursor and the generator's locals ----
    resultset,           \* the rows the executed query produces
    row_limit,           \* self._row_limit
    cursor_pos,          \* rows the cursor has handed out so far
    rows,                \* the batch the generator is iterating
    row_i,               \* rows of that batch already yielded
    result,              \* the re-used column access map
    yielded,             \* what the consumer saw at each yield
    batches,             \* size of every batch fetchmany returned
    ipc                  \* "start", "iter" (suspended in the loops) or "done"

VARIABLES
    \* ---- get_connection's except branch ----
    password,            \* self._password, a sequence of characters
    conn_error,          \* str(e) of the exception connect() raised
    message,             \* the text logged and given to the CRITICAL service check
    rpc                  \* "start" before the except branch ran, "reported" after

VARIABLES
    \* ---- query_connection_overview ----
    conn_rows,           \* rows iter_rows has yielded to the method so far
    db_counts,           \* the defaultdict keyed by (db_name, host, port)
    todo,                \* keys the emitting loop has not reached yet
    conn_gauges,         \* connection.* gauges emitted, in emission order
    opc                  \* "iter", "emit", "returned" or "raised"

VARIABLES
    \* ---- the ratio computations of the metric mappers ----
    metric_row,          \* the row mapping a metric mapper is given
    gauges,              \* gauges the mapper emitted for that row, in order
    map_raised,          \* the mapper ended by an exception on that row
    mpc                  \* "start" before the row is mapped, "mapped" after

VARIABLES
    \* ---- the Fluentd check's timeout resolution ----
    init_config,         \* the init_config mapping: its `timeout` and `default_timeout`
    instance,            \* the instance mapping: its `timeout` and `default_timeout`
    http_timeout,        \* check.http.options['timeout'], <<>> before the check is built
    tpc                  \* "start" before the check is built, "resolved" after

checkVars == <<conn, master_hostname, use_hana_hostnames, pc, idx, runs, attempts,
               last_run, invoked, can_connect, nErrors, lastLogged, anyEmission,
               emitted, lastCached>>

iterVars == <<resultset, row_limit, cursor_pos, rows, row_i, result, yielded, batches, ipc>>

redactVars == <<password, conn_error, message, rpc>>

overviewVars == <<conn_rows, db_counts, todo, conn_gauges, opc>>

ratioVars == <<metric_row, gauges, map_raised, mpc>>

timeoutVars == <<init_config, instance, http_timeout, tpc>>

vars == <<checkVars, iterVars, redactVars, overviewVars, ratioVars, timeoutVars>>

(***************************************************************************)
(* Bounds                                                                  *)
(***************************************************************************)
MaxRuns == 2
MaxRows == 2
MaxResultRows == 5
MaxRowLimit == 2
MaxPasswordLen == 2
MaxErrorLen == 3
MaxConnRows == 3
MaxTotal == 2
MaxBytes == 2

(***************************************************************************)
(* Values                                                                  *)
(***************************************************************************)
\* Python's None where a string is expected.
None == "<None>"

\* self._conn = None
NoConn == 0

\* Host column values a row can carry: NULL, the empty string, two names.
HostValues == {None, "", "hana1", "hana2"}

\* Python truthiness of an optional string.
Truthy(h) == h \notin {None, ""}

RECURSIVE SeqsUpTo(_, _)
SeqsUpTo(S, n) ==
    IF n = 0 THEN {<<>>}
    ELSE LET shorter == SeqsUpTo(S, n - 1)
         IN  shorter \cup {Append(s, x) : s \in {t \in shorter : Len(t) = n - 1}, x \in S}

HostRows == SeqsUpTo(HostValues, MaxRows)

otherThanCheck == <<iterVars, redactVars, overviewVars, ratioVars, timeoutVars>>
otherThanIter == <<checkVars, redactVars, overviewVars, ratioVars, timeoutVars>>
otherThanRedact == <<checkVars, iterVars, overviewVars, ratioVars, timeoutVars>>
otherThanOverview == <<checkVars, iterVars, redactVars, ratioVars, timeoutVars>>
otherThanRatio == <<checkVars, iterVars, redactVars, overviewVars, timeoutVars>>
otherThanTimeout == <<checkVars, iterVars, redactVars, overviewVars, ratioVars>>

(***************************************************************************)
(* check(): the loop over the query methods                                *)
(***************************************************************************)
QueryMethods ==
    << "query_master_database",
       "query_database_status",
       "query_backup_status",
       "query_licenses",
       "query_connection_overview",
       "query_disk_usage",
       "query_service_memory",
       "query_service_component_memory",
       "query_row_store_memory" >>

NumQueries == Len(QueryMethods)

\* Methods that hand the row's host column to get_hana_hostname.
PassesRowHost(m) == m \notin {"query_database_status", "query_licenses"}

\* Methods that emit once per row, in row order.
PerRowMethods == {QueryMethods[i] : i \in 2..NumQueries} \ {"query_connection_overview"}

\* `if self._conn is None:`
AlwaysConnect(c) == TRUE
NeedsConnection(c) == c = NoConn

\* get_connection(): the service check it emits.
ConnectStatusSilent(ok) == IF ok THEN <<"OK">> ELSE <<>>
ConnectStatus(ok) == IF ok THEN <<"OK">> ELSE <<"CRITICAL">>

\* get_connection(): its return value, `id` being the new Connection object.
GetConnectionResult(ok, id) == IF ok THEN id ELSE NoConn

\* `if connection is None: return`
ProceedWithoutConnection(c) == FALSE
ReturnsEarly(c) == c = NoConn

\* except Exception ... continue: the loop index after a method raised.
AfterExceptionBreak(i) == NumQueries + 1
AfterException(i) == i + 1

\* get_hana_hostname(hostname), given the instance fields it reads.
get_hana_hostname_master_first(use, master, hostname) ==
    IF use THEN (IF Truthy(master) THEN master ELSE hostname) ELSE None
get_hana_hostname(use, master, hostname) ==
    IF use THEN (IF Truthy(hostname) THEN hostname ELSE master) ELSE None

\* query_master_database: self._master_hostname after the row with host h.
CacheMasterAlways(use, master, h) == h
CacheMaster(use, master, h) == IF use THEN h ELSE master

Emission(m, rowhost, hostname, cached) ==
    [method |-> m, rowhost |-> rowhost, hostname |-> hostname, cached |-> cached]

IdleCheck ==
    /\ conn = NoConn
    /\ master_hostname = None
    /\ use_hana_hostnames = TRUE
    /\ pc = "off"
    /\ idx = 0
    /\ runs = 0
    /\ attempts = 0
    /\ last_run = "none"
    /\ invoked = <<>>
    /\ can_connect = <<>>
    /\ nErrors = 0
    /\ lastLogged = ""
    /\ anyEmission = FALSE
    /\ emitted = {}
    /\ lastCached = None

InitCheck ==
    /\ conn = NoConn
    /\ master_hostname = None
    /\ use_hana_hostnames \in BOOLEAN
    /\ pc = "idle"
    /\ idx = 0
    /\ runs = 0
    /\ attempts = 0
    /\ last_run = "none"
    /\ invoked = <<>>
    /\ can_connect = <<>>
    /\ nErrors = 0
    /\ lastLogged = ""
    /\ anyEmission = FALSE
    /\ emitted = {}
    /\ lastCached = None

\* check() is entered: connect if needed, return early without a connection.
CheckStart ==
    /\ pc = "idle"
    /\ runs < MaxRuns
    /\ runs' = runs + 1
    /\ invoked' = <<>>
    /\ nErrors' = 0
    /\ lastLogged' = ""
    /\ anyEmission' = FALSE
    /\ emitted' = {}
    /\ IF NeedsConnection(conn)
       THEN \E ok \in BOOLEAN :
              LET connection == GetConnectionResult(ok, attempts + 1) IN
              /\ attempts' = attempts + 1
              /\ can_connect' = ConnectStatus(ok)
              /\ IF ReturnsEarly(connection)
                 THEN /\ conn' = conn
                      /\ pc' = "idle"
                      /\ idx' = 0
                      /\ last_run' = "no_connection"
                 ELSE /\ conn' = connection
                      /\ pc' = "queries"
                      /\ idx' = 1
                      /\ last_run' = "running"
       ELSE /\ attempts' = attempts
            /\ can_connect' = <<>>
            /\ conn' = conn
            /\ pc' = "queries"
            /\ idx' = 1
            /\ last_run' = "running"
    /\ UNCHANGED <<master_hostname, use_hana_hostnames, lastCached>>
    /\ UNCHANGED otherThanCheck

\* What the try/except around one query method leaves behind.
StepDone(m, raises) ==
    /\ invoked' = Append(invoked, m)
    /\ idx' = IF raises THEN AfterException(idx) ELSE idx + 1
    /\ nErrors' = IF raises THEN nErrors + 1 ELSE nErrors
    /\ lastLogged' = IF raises THEN m ELSE ""
    /\ anyEmission' = (anyEmission \/ emitted' # {})
    /\ UNCHANGED <<conn, use_hana_hostnames, pc, runs, attempts, last_run, can_connect>>
    /\ UNCHANGED otherThanCheck

\* query_master_database: the rows in `done` are processed in full; then the
\* method returns, or raises, possibly after one more row (`next`) has reached
\* the caching line.
QueryMasterDatabase ==
    /\ pc = "queries"
    /\ idx = 1
    /\ \E done \in HostRows, next \in SeqsUpTo(HostValues, 1), raises \in BOOLEAN :
         /\ Len(done) + Len(next) <= MaxRows
         /\ next # <<>> => raises
         /\ LET use == use_hana_hostnames
                reached == done \o next
                n == Len(reached)
            IN  /\ master_hostname' =
                      IF n = 0 THEN master_hostname
                      ELSE CacheMaster(use, master_hostname, reached[n])
                /\ lastCached' = IF use /\ n > 0 THEN reached[n] ELSE lastCached
                /\ emitted' =
                      { Emission(QueryMethods[1], done[i],
                                 get_hana_hostname(use,
                                     CacheMaster(use, master_hostname, done[i]), done[i]),
                                 IF use THEN done[i] ELSE lastCached) : i \in 1..Len(done) }
                /\ StepDone(QueryMethods[1], raises)

\* The methods that emit per row: the rows in `done` are emitted, then the
\* method returns or raises.
QueryPerRow ==
    /\ pc = "queries"
    /\ idx \in 2..NumQueries
    /\ QueryMethods[idx] \in PerRowMethods
    /\ \E done \in HostRows, raises \in BOOLEAN :
         LET m == QueryMethods[idx] IN
         /\ emitted' =
               { LET h == IF PassesRowHost(m) THEN done[i] ELSE None
                 IN  Emission(m, h,
                              get_hana_hostname(use_hana_hostnames, master_hostname, h),
                              lastCached) : i \in 1..Len(done) }
         /\ StepDone(m, raises)
    /\ UNCHANGED <<master_hostname, lastCached>>

\* query_connection_overview: emits once per key, after the last row only, so
\* nothing when it raises.
QueryConnectionOverviewStep ==
    /\ pc = "queries"
    /\ idx \in 2..NumQueries
    /\ QueryMethods[idx] = "query_connection_overview"
    /\ \E hosts \in HostRows, raises \in BOOLEAN :
         /\ emitted' =
               IF raises THEN {}
               ELSE { Emission(QueryMethods[idx], hosts[i],
                        get_hana_hostname(use_hana_hostnames, master_hostname, hosts[i]),
                        lastCached) : i \in 1..Len(hosts) }
         /\ StepDone(QueryMethods[idx], raises)
    /\ UNCHANGED <<master_hostname, lastCached>>

\* The for loop is exhausted: check() returns.
CheckReturn ==
    /\ pc = "queries"
    /\ idx > NumQueries
    /\ pc' = "idle"
    /\ idx' = 0
    /\ last_run' = "completed"
    /\ UNCHANGED <<conn, master_hostname, use_hana_hostnames, runs, attempts, invoked,
                   can_connect, nErrors, lastLogged, anyEmission, emitted, lastCached>>
    /\ UNCHANGED otherThanCheck

Next ==
    \/ CheckStart
    \/ QueryMasterDatabase
    \/ QueryPerRow
    \/ QueryConnectionOverviewStep
    \/ CheckReturn

\* C1: in a run that has a connection the nine query methods are invoked once
\* each, in the fixed order; a method that raises is logged by name and the
\* methods after it are still invoked, so the run always returns from the end
\* of the loop with all nine invoked.
C1_AllQueriesInvokedInOrder ==
    /\ pc = "queries" =>
          /\ idx \in 1..(NumQueries + 1)
          /\ invoked = SubSeq(QueryMethods, 1, idx - 1)
    /\ last_run = "completed" => invoked = QueryMethods
    /\ lastLogged # "" => (invoked # <<>> /\ lastLogged = invoked[Len(invoked)])
    /\ nErrors <= Len(invoked)

\* A run in which every one of the nine methods raised has returned normally.
C1_Witness ==
    /\ last_run = "completed"
    /\ pc = "idle"
    /\ nErrors = NumQueries
    /\ invoked = QueryMethods

\* C2: a run that starts without a cached connection and fails to connect
\* emits exactly one CRITICAL can_connect service check and returns without
\* invoking a query method or emitting anything; the cached connection stays
\* empty, so every run so far has attempted to connect and the next one will.
C2_FailedConnectEndsRun ==
    /\ last_run = "no_connection" =>
          /\ pc = "idle"
          /\ can_connect = <<"CRITICAL">>
          /\ conn = NoConn
          /\ invoked = <<>>
          /\ ~anyEmission
    /\ (conn = NoConn /\ runs > 0) =>
          /\ last_run = "no_connection"
          /\ attempts = runs

\* Two runs in a row have failed to connect.
C2_Witness ==
    /\ last_run = "no_connection"
    /\ runs = 2
    /\ attempts = 2
    /\ can_connect = <<"CRITICAL">>
    /\ conn = NoConn

\* C3: a run calls get_connection, and emits a can_connect service check, only
\* when it starts with no cached connection; a cached connection is never
\* replaced or cleared afterwards, whatever the queries do.
C3_ConnectionCachedForGood ==
    [][ /\ conn # NoConn => conn' = conn
        /\ attempts' # attempts => (conn = NoConn /\ pc = "idle")
        /\ runs' # runs =>
              /\ attempts' - attempts = (IF conn = NoConn THEN 1 ELSE 0)
              /\ Len(can_connect') = attempts' - attempts
        /\ runs' = runs => can_connect' = can_connect ]_vars

\* The second run re-used the connection of the first without a can_connect
\* service check, all nine of its queries raised, and the connection is still
\* the one cached by the first run.
C3_Witness ==
    /\ runs = 2
    /\ last_run = "completed"
    /\ nErrors = NumQueries
    /\ attempts = 1
    /\ conn = 1
    /\ can_connect = <<>>

\* C8: with use_hana_hostnames disabled every emission carries no hostname and
\* the master hostname is never set; with it enabled an emission carries the
\* row's own host when that is non-empty, otherwise the master hostname most
\* recently cached by query_master_database (none before the first caching).
C8_HostnameOverride ==
    /\ \A e \in emitted :
          e.hostname = IF ~use_hana_hostnames THEN None
                       ELSE IF Truthy(e.rowhost) THEN e.rowhost
                       ELSE e.cached
    /\ ~use_hana_hostnames => master_hostname = None
    /\ use_hana_hostnames => master_hostname = lastCached

\* In a second run whose master query raised, the status query (which passes
\* no row host) emitted with the master hostname, while an earlier-cached
\* "hana1" is what the instance holds.
C8_Witness ==
    /\ runs = 2
    /\ pc = "queries"
    /\ idx = 3
    /\ nErrors = 2
    /\ use_hana_hostnames
    /\ master_hostname = "hana1"
    /\ \E e \in emitted : e.rowhost = None /\ e.hostname = "hana1"

\* With hostnames enabled, a row with its own host is emitted under that host
\* although a different master hostname is cached.
C8_WitnessRowHost ==
    /\ use_hana_hostnames
    /\ master_hostname = "hana1"
    /\ \E e \in emitted : e.rowhost = "hana2" /\ e.hostname = "hana2"

(***************************************************************************)
(* iter_rows(query)                                                        *)
(***************************************************************************)
\* query.fields of the descriptor under iteration.
query_fields == <<"db_name", "host">>

\* A key the re-used dict does not hold.
Absent == <<>>

\* The value in column j of row i of the result set: every cell is distinct.
Cell(i, j) == <<i, j>>

\* Row i of a result set, with w positional values.
Row(i, w) == [j \in 1..w |-> Cell(i, j)]

\* Result sets: up to MaxResultRows rows, each with at most as many values as
\* the descriptor has fields.
ResultSets ==
    { [i \in 1..Len(ws) |-> Row(i, ws[i])] :
          ws \in SeqsUpTo(0..Len(query_fields), MaxResultRows) }

Min(a, b) == IF a < b THEN a ELSE b

\* cursor.fetchmany(size) when `pos` rows were handed out already.
fetchmany(rs, pos, size) == SubSeq(rs, pos + 1, Min(pos + size, Len(rs)))

\* for column, value in zip(query.fields, row): result[column] = value
ZipAssign(res, fields, row) ==
    [f \in DOMAIN res |->
        IF \E j \in 1..Min(Len(fields), Len(row)) : fields[j] = f
        THEN row[CHOOSE j \in 1..Min(Len(fields), Len(row)) : fields[j] = f]
        ELSE res[f]]

\* result = {}
EmptyResult == [f \in {query_fields[j] : j \in 1..Len(query_fields)} |-> Absent]

IdleIter ==
    /\ resultset = <<>>
    /\ row_limit = 1
    /\ cursor_pos = 0
    /\ rows = <<>>
    /\ row_i = 0
    /\ result = EmptyResult
    /\ yielded = <<>>
    /\ batches = <<>>
    /\ ipc = "off"

InitIter ==
    /\ resultset \in ResultSets
    /\ row_limit \in 0..MaxRowLimit
    /\ cursor_pos = 0
    /\ rows = <<>>
    /\ row_i = 0
    /\ result = EmptyResult
    /\ yielded = <<>>
    /\ batches = <<>>
    /\ ipc = "start"

\* First next(): execute, result = {}, the first fetchmany.
IterStart ==
    /\ ipc = "start"
    /\ LET batch == fetchmany(resultset, cursor_pos, row_limit) IN
       /\ rows' = batch
       /\ cursor_pos' = cursor_pos + Len(batch)
       /\ batches' = Append(batches, Len(batch))
    /\ row_i' = 0
    /\ result' = EmptyResult
    /\ ipc' = "iter"
    /\ UNCHANGED <<resultset, row_limit, yielded>>
    /\ UNCHANGED otherThanIter

\* The inner for loop reaches the next row of the batch: zip, then yield.
IterYield ==
    /\ ipc = "iter"
    /\ row_i < Len(rows)
    /\ LET filled == ZipAssign(result, query_fields, rows[row_i + 1]) IN
       /\ result' = filled
       /\ yielded' = Append(yielded, filled)
    /\ row_i' = row_i + 1
    /\ UNCHANGED <<resultset, row_limit, cursor_pos, rows, batches, ipc>>
    /\ UNCHANGED otherThanIter

\* The batch is consumed and was not empty: fetch the next one.
IterFetch ==
    /\ ipc = "iter"
    /\ rows # <<>>
    /\ row_i = Len(rows)
    /\ LET batch == fetchmany(resultset, cursor_pos, row_limit) IN
       /\ rows' = batch
       /\ cursor_pos' = cursor_pos + Len(batch)
       /\ batches' = Append(batches, Len(batch))
    /\ row_i' = 0
    /\ UNCHANGED <<resultset, row_limit, result, yielded, ipc>>
    /\ UNCHANGED otherThanIter

\* `while rows:` sees an empty batch: the generator is exhausted.
IterStop ==
    /\ ipc = "iter"
    /\ rows = <<>>
    /\ ipc' = "done"
    /\ UNCHANGED <<resultset, row_limit, cursor_pos, rows, row_i, result, yielded, batches>>
    /\ UNCHANGED otherThanIter

NextIter ==
    \/ IterStart
    \/ IterYield
    \/ IterFetch
    \/ IterStop

\* The mapping m carries row's values under the descriptor's field names.
CarriesRow(m, row) ==
    \A j \in 1..Min(Len(query_fields), Len(row)) : m[query_fields[j]] = row[j]

\* The batches fetched so far respect the limit, and only the last may be empty.
BatchesWellFormed ==
    /\ \A b \in 1..Len(batches) : batches[b] <= row_limit
    /\ \A b \in 1..(Len(batches) - 1) : batches[b] > 0
    /\ ipc = "done" => batches[Len(batches)] = 0

\* C4: for every result set and every row limit, iter_rows yields exactly one
\* mapping per row of the result set, in result-set order, never more and never
\* fewer, fetching batches of at most row_limit rows until the first empty one.
C4_YieldsEveryRowOnce ==
    /\ BatchesWellFormed
    /\ Len(yielded) <= Len(resultset)
    /\ \A i \in 1..Len(yielded) : CarriesRow(yielded[i], resultset[i])
    /\ ipc = "done" => Len(yielded) = Len(resultset)

\* The same statement for the row limits that are at least 1.
YieldsEveryRowOnceWhenLimitPositive ==
    row_limit >= 1 => C4_YieldsEveryRowOnce

\* With a limit of 2, five rows come as batches of 2, 2, 1 and a final empty one.
FullFullPartialBatches ==
    /\ ipc = "done"
    /\ row_limit = 2
    /\ batches = <<2, 2, 1, 0>>
    /\ Len(yielded) = 5

\* C10: every mapping iter_rows yields shows values of the current row only: no
\* value of a previously yielded row is visible in a later yield, also when a
\* row has fewer positional values than the descriptor has field names.
C10_NoStaleValues ==
    \A i \in 1..Len(yielded) :
        \A j \in 1..Len(query_fields) :
            LET v == yielded[i][query_fields[j]]
            IN  v = Absent \/ v[1] = i

\* Rows that all have one value per field leave nothing stale.
NoStaleValuesWhenRowsAreFull ==
    (\A i \in 1..Len(resultset) : Len(resultset[i]) = Len(query_fields))
        => \A i \in 1..Len(yielded) :
              \A j \in 1..Len(query_fields) : yielded[i][query_fields[j]] = resultset[i][j]

(***************************************************************************)
(* get_connection(): the redaction of the password in the error text       *)
(***************************************************************************)
\* Characters of passwords and error texts; '*' is the redaction character.
Alphabet == {"a", "b", "*"}

\* '*' * n
Stars(n) == [i \in 1..n |-> "*"]

\* old.join-style result of s.replace('', new): new before every character
\* and after the last one.
RECURSIVE Interleave(_, _)
Interleave(s, new) ==
    IF s = <<>> THEN new ELSE new \o <<Head(s)>> \o Interleave(Tail(s), new)

\* str.replace(old, new): the leftmost non-overlapping occurrences of old,
\* scanning from the left, each replaced by new.
RECURSIVE StrReplace(_, _, _)
StrReplace(s, old, new) ==
    IF old = <<>> THEN Interleave(s, new)
    ELSE IF Len(s) < Len(old) THEN s
    ELSE IF SubSeq(s, 1, Len(old)) = old
         THEN new \o StrReplace(SubSeq(s, Len(old) + 1, Len(s)), old, new)
         ELSE <<Head(s)>> \o StrReplace(Tail(s), old, new)

\* error = str(e).replace(self._password, '*' * len(self._password))
Redact(err, pw) == StrReplace(err, pw, Stars(Len(pw)))

\* `sub in s` for Python strings.
Contains(s, sub) ==
    \E i \in 0..(Len(s) - Len(sub)) : SubSeq(s, i + 1, i + Len(sub)) = sub

IdleRedact ==
    /\ password = <<>>
    /\ conn_error = <<>>
    /\ message = <<>>
    /\ rpc = "off"

InitRedact ==
    /\ password \in SeqsUpTo(Alphabet, MaxPasswordLen)
    /\ conn_error \in SeqsUpTo(Alphabet, MaxErrorLen)
    /\ message = <<>>
    /\ rpc = "start"

\* connect() raised: the except branch builds the message it logs and reports.
GetConnectionFailure ==
    /\ rpc = "start"
    /\ message' = Redact(conn_error, password)
    /\ rpc' = "reported"
    /\ UNCHANGED <<password, conn_error>>
    /\ UNCHANGED otherThanRedact

NextRedact == GetConnectionFailure

\* C5: for every password and every connection error text, the message that
\* get_connection logs and reports never contains the password as a substring.
\* (The empty password, a substring of every text, is left out of the statement.)
C5_MessageNeverContainsPassword ==
    (rpc = "reported" /\ password # <<>>) => ~Contains(message, password)

\* The same statement for passwords free of the redaction character.
MessageHidesPasswordWithoutStars ==
    (rpc = "reported" /\ password # <<>> /\ \A i \in 1..Len(password) : password[i] # "*")
        => ~Contains(message, password)

(***************************************************************************)
(* query_connection_overview(): grouping by (db_name, host, port)          *)
(***************************************************************************)
\* (db_name, host, port) values of the rows.
ConnKeys == {<<"A", "h", "30013">>, <<"B", "h", "30015">>}

\* connection_status values as the database returns them.
RawStatuses == {"RUNNING", "Idle", "QUEUING"}

\* str.lower() on those values.
Lower(st) ==
    CASE st = "RUNNING" -> "running"
      [] st = "Idle"    -> "idle"
      [] st = "QUEUING" -> "queuing"
      [] OTHER          -> st

ConnRows == [key : ConnKeys, status : RawStatuses, total : 1..MaxTotal]

\* defaultdict(lambda: {'running': 0, 'idle': 0}): db_counts[key] inserts the
\* default for a key it does not hold.
WithDefault(counts, key) ==
    IF key \in DOMAIN counts THEN counts ELSE counts @@ (key :> [running |-> 0, idle |-> 0])

\* ... [conn['status'].lower()] += conn['total'] finds the status in the inner
\* dict, which holds 'running' and 'idle' only; anything else is a KeyError.
RaisesKeyError(row) == Lower(row.status) \notin {"running", "idle"}

\* db_counts after the += of one row that raises no KeyError.
AddRow(counts, row) ==
    LET c == WithDefault(counts, row.key)
        st == Lower(row.status)
    IN  [c EXCEPT ![row.key] =
            IF st = "running" THEN [@ EXCEPT !.running = @ + row.total]
            ELSE [@ EXCEPT !.idle = @ + row.total]]

\* The three gauges of one key, in the order the loop emits them.
KeyGauges(key, counts) ==
    << [name |-> "connection.running", key |-> key, value |-> counts.running],
       [name |-> "connection.idle", key |-> key, value |-> counts.idle],
       [name |-> "connection.active", key |-> key, value |-> counts.running + counts.idle] >>

IdleOverview ==
    /\ conn_rows = <<>>
    /\ db_counts = <<>>
    /\ todo = {}
    /\ conn_gauges = <<>>
    /\ opc = "off"

InitOverview ==
    /\ conn_rows = <<>>
    /\ db_counts = <<>>
    /\ todo = {}
    /\ conn_gauges = <<>>
    /\ opc = "iter"

\* The first loop takes the next row from iter_rows.
OverviewRow ==
    /\ opc = "iter"
    /\ Len(conn_rows) < MaxConnRows
    /\ \E row \in ConnRows :
         /\ conn_rows' = Append(conn_rows, row)
         /\ IF RaisesKeyError(row)
            THEN /\ db_counts' = WithDefault(db_counts, row.key)
                 /\ opc' = "raised"
            ELSE /\ db_counts' = AddRow(db_counts, row)
                 /\ opc' = "iter"
    /\ UNCHANGED <<todo, conn_gauges>>
    /\ UNCHANGED otherThanOverview

\* iter_rows is exhausted: the second loop starts over the keys of db_counts.
OverviewRowsDone ==
    /\ opc = "iter"
    /\ todo' = DOMAIN db_counts
    /\ opc' = "emit"
    /\ UNCHANGED <<conn_rows, db_counts, conn_gauges>>
    /\ UNCHANGED otherThanOverview

\* One iteration of the second loop: the three gauges of one key.
OverviewEmit ==
    /\ opc = "emit"
    /\ \E key \in todo :
         /\ conn_gauges' = conn_gauges \o KeyGauges(key, db_counts[key])
         /\ todo' = todo \ {key}
    /\ UNCHANGED <<conn_rows, db_counts, opc>>
    /\ UNCHANGED otherThanOverview

\* The second loop is exhausted: the method returns.
OverviewReturn ==
    /\ opc = "emit"
    /\ todo = {}
    /\ opc' = "returned"
    /\ UNCHANGED <<conn_rows, db_counts, todo, conn_gauges>>
    /\ UNCHANGED otherThanOverview

NextOverview ==
    \/ OverviewRow
    \/ OverviewRowsDone
    \/ OverviewEmit
    \/ OverviewReturn

RECURSIVE SumTotal(_, _)
SumTotal(rs, key) ==
    IF rs = <<>> THEN 0
    ELSE (IF Head(rs).key = key THEN Head(rs).total ELSE 0) + SumTotal(Tail(rs), key)

KeysPresent == {conn_rows[i].key : i \in 1..Len(conn_rows)}

GaugesOf(name, key) ==
    {i \in 1..Len(conn_gauges) : conn_gauges[i].name = name /\ conn_gauges[i].key = key}

\* Every key of the rows has each gauge exactly once, active being the sum of
\* its rows' totals and of its running and idle gauges.
EveryKeyEmittedOnce ==
    \A key \in KeysPresent :
        /\ \A name \in {"connection.running", "connection.idle", "connection.active"} :
              Cardinality(GaugesOf(name, key)) = 1
        /\ \A i \in GaugesOf("connection.active", key) :
              /\ conn_gauges[i].value = SumTotal(conn_rows, key)
              /\ \A r \in GaugesOf("connection.running", key) :
                    \A d \in GaugesOf("connection.idle", key) :
                       conn_gauges[i].value = conn_gauges[r].value + conn_gauges[d].value

\* C6: once query_connection_overview has consumed the result rows and ended,
\* connection.running, connection.idle and connection.active have been emitted
\* exactly once per distinct (db, host, port) key of the rows, connection.active
\* being the sum of `total` over all raw rows with that key.
C6_ActiveIsSumPerKey ==
    opc \in {"returned", "raised"} => EveryKeyEmittedOnce

\* The same statement when every row's status is running or idle in some case.
ActiveIsSumPerKeyForRunningAndIdle ==
    (opc \in {"returned", "raised"}
        /\ \A i \in 1..Len(conn_rows) : ~RaisesKeyError(conn_rows[i]))
      => (opc = "returned" /\ EveryKeyEmittedOnce)

(***************************************************************************)
(* The metric mappers' derived quantities (true division, so rationals)    *)
(***************************************************************************)
\* A gauge value is the rational num / den; an integer n is n / 1.  Rounding
\* of Python floats is not modelled.
Whole(n) == [num |-> n, den |-> 1]

\* What a / 0 gives: the exception, carried as a value up to the emission.
ZeroDivisionError == [num |-> 0, den |-> 0]

\* a / b under `from __future__ import division`.
TrueDiv(a, b) == IF b = 0 THEN ZeroDivisionError ELSE [num |-> a, den |-> b]

\* x * 100
Times100(x) == IF x = ZeroDivisionError THEN x ELSE [num |-> x.num * 100, den |-> x.den]

\* if total: utilized = used / total * 100  else: utilized = 0
UtilizedUnguarded(used, total) == Times100(TrueDiv(used, total))
Utilized(used, total) == IF total # 0 THEN Times100(TrueDiv(used, total)) ELSE Whole(0)

\* max(0, x)
Max0(x) == IF x < 0 THEN 0 ELSE x

Gauge(name, value) == [name |-> name, value |-> value]

\* query_licenses, the gauges of one row after license.expiration.
LicenseGauges(r) ==
    LET total == r.limit
        used == r.usage
    IN  << Gauge("license.size", Whole(total)),
           Gauge("license.usage", Whole(used)),
           Gauge("license.usable", Whole(total - used)),
           Gauge("license.utilized", Utilized(used, total)) >>

\* query_disk_usage, the gauges of one row.
DiskGauges(r) ==
    LET total == r.total
        used == Max0(r.used)
    IN  << Gauge("disk.size", Whole(total)),
           Gauge("disk.used", Whole(used)),
           Gauge("disk.usable", Whole(total - used)),
           Gauge("disk.utilized", Utilized(used, total)) >>

\* query_service_memory, the gauges of one row after the physical and virtual
\* totals.
ServiceMemoryGauges(r) ==
    LET compactors_used == r.compactors_total - r.compactors_usable
    IN  << Gauge("memory.service.overall.total", Whole(r.total)),
           Gauge("memory.service.overall.used", Whole(r.used)),
           Gauge("memory.service.overall.usable", Whole(r.total - r.used)),
           Gauge("memory.service.overall.utilized", Utilized(r.used, r.total)),
           Gauge("memory.service.heap.total", Whole(r.heap_total)),
           Gauge("memory.service.heap.used", Whole(r.heap_used)),
           Gauge("memory.service.heap.usable", Whole(r.heap_total - r.heap_used)),
           Gauge("memory.service.heap.utilized", Utilized(r.heap_used, r.heap_total)),
           Gauge("memory.service.shared.total", Whole(r.shared_total)),
           Gauge("memory.service.shared.used", Whole(r.shared_used)),
           Gauge("memory.service.shared.usable", Whole(r.shared_total - r.shared_used)),
           Gauge("memory.service.shared.utilized", Utilized(r.shared_used, r.shared_total)),
           Gauge("memory.service.compactor.total", Whole(r.compactors_total)),
           Gauge("memory.service.compactor.usable", Whole(r.compactors_usable)),
           Gauge("memory.service.compactor.used", Whole(compactors_used)),
           Gauge("memory.service.compactor.utilized",
                 Utilized(compactors_used, r.compactors_total)) >>

\* query_row_store_memory, the gauges of one row.
RowStoreGauges(r) ==
    << Gauge("memory.row_store.total", Whole(r.total)),
       Gauge("memory.row_store.used", Whole(r.used)),
       Gauge("memory.row_store.usable", Whole(r.usable)),
       Gauge("memory.row_store.utilized", Utilized(r.used, r.total)) >>

\* The statements of a mapper run in order: an exception while a value is
\* computed ends the method before that gauge and all later ones.
RECURSIVE EmittedBeforeRaise(_)
EmittedBeforeRaise(gs) ==
    IF gs = <<>> \/ Head(gs).value = ZeroDivisionError THEN <<>>
    ELSE <<Head(gs)>> \o EmittedBeforeRaise(Tail(gs))

Bytes == 0..MaxBytes

IdleRatio ==
    /\ metric_row = [family |-> "none"]
    /\ gauges = <<>>
    /\ map_raised = FALSE
    /\ mpc = "off"

InitRatio ==
    /\ metric_row = [family |-> "none"]
    /\ gauges = <<>>
    /\ map_raised = FALSE
    /\ mpc = "start"

\* One row goes through a mapper: what it emitted and whether it raised.
MapRow(r, gs) ==
    /\ metric_row' = r
    /\ gauges' = EmittedBeforeRaise(gs)
    /\ map_raised' = (Len(EmittedBeforeRaise(gs)) < Len(gs))
    /\ mpc' = "mapped"
    /\ UNCHANGED otherThanRatio

LicenseRow ==
    /\ mpc = "start"
    /\ \E r \in [family : {"license"}, limit : Bytes, usage : Bytes] :
        MapRow(r, LicenseGauges(r))

DiskRow ==
    /\ mpc = "start"
    /\ \E r \in [family : {"disk"}, total : Bytes, used : (-1)..MaxBytes] :
        MapRow(r, DiskGauges(r))

ServiceMemoryRow ==
    /\ mpc = "start"
    /\ \E r \in [family : {"service_memory"}, total : Bytes, used : Bytes,
               heap_total : Bytes, heap_used : Bytes,
               shared_total : Bytes, shared_used : Bytes,
               compactors_total : Bytes, compactors_usable : Bytes] :
        MapRow(r, ServiceMemoryGauges(r))

RowStoreRow ==
    /\ mpc = "start"
    /\ \E r \in [family : {"row_store"}, total : Bytes, used : Bytes, usable : Bytes] :
        MapRow(r, RowStoreGauges(r))

NextRatio ==
    \/ LicenseRow
    \/ DiskRow
    \/ ServiceMemoryRow
    \/ RowStoreRow

\* The utilized gauges: the row field holding the total, the gauge holding
\* the used amount, and the utilized gauge itself.
UtilizedGauges ==
    { [family |-> "license", total |-> "limit",
       used |-> "license.usage", utilized |-> "license.utilized"],
      [family |-> "disk", total |-> "total",
       used |-> "disk.used", utilized |-> "disk.utilized"],
      [family |-> "service_memory", total |-> "total",
       used |-> "memory.service.overall.used",
       utilized |-> "memory.service.overall.utilized"],
      [family |-> "service_memory", total |-> "heap_total",
       used |-> "memory.service.heap.used",
       utilized |-> "memory.service.heap.utilized"],
      [family |-> "service_memory", total |-> "shared_total",
       used |-> "memory.service.shared.used",
       utilized |-> "memory.service.shared.utilized"],
      [family |-> "service_memory", total |-> "compactors_total",
       used |-> "memory.service.compactor.used",
       utilized |-> "memory.service.compactor.utilized"],
      [family |-> "row_store", total |-> "total",
       used |-> "memory.row_store.used",
       utilized |-> "memory.row_store.utilized"] }

EmittedOnce(name) == Cardinality({i \in 1..Len(gauges) : gauges[i].name = name}) = 1

GaugeValue(name) == gauges[CHOOSE i \in 1..Len(gauges) : gauges[i].name = name].value

\* v = used / total * 100 as rationals, total not 0.
IsPercentOf(v, used, total) ==
    /\ v.den # 0
    /\ v.num * total * used.den = used.num * 100 * v.den

\* C9: for every mapped row, each utilized gauge is emitted; it is exactly 0
\* when the row's total is 0, no division by zero ending the method, and it is
\* used / total * 100 when the total is not 0.
C9_UtilizedGuardsZeroTotal ==
    mpc = "mapped" =>
        /\ ~map_raised
        /\ \A u \in UtilizedGauges :
              u.family = metric_row.family =>
                 /\ EmittedOnce(u.utilized)
                 /\ IF metric_row[u.total] = 0
                    THEN GaugeValue(u.utilized) = Whole(0)
                    ELSE IsPercentOf(GaugeValue(u.utilized), GaugeValue(u.used),
                                     metric_row[u.total])

\* A service-memory row with a zero heap total and a non-zero overall total
\* has been mapped: heap utilized is 0 and overall utilized is 50.
C9_Witness ==
    /\ mpc = "mapped"
    /\ metric_row.family = "service_memory"
    /\ metric_row.heap_total = 0
    /\ metric_row.heap_used = 1
    /\ metric_row.total = 2
    /\ metric_row.used = 1
    /\ ~map_raised
    /\ GaugeValue("memory.service.heap.utilized") = Whole(0)
    /\ GaugeValue("memory.service.overall.utilized") = [num |-> 100, den |-> 2]

(***************************************************************************)
(* Fluentd: the effective HTTP timeout                                     *)
(***************************************************************************)
\* The timeout when no key is set.
DEFAULT_TIMEOUT == 5

\* The timeouts the unit tests configure.
TimeoutValues == {2, 7, 9, 13, 15}

\* A key of a mapping: <<>> when absent, <<v>> when set to v.
Unset == <<>>
Set(v) == <<v>>
Present(o) == o # Unset

TimeoutKeys == [timeout : {Unset} \cup {Set(v) : v \in TimeoutValues},
                default_timeout : {Unset} \cup {Set(v) : v \in TimeoutValues}]

\* The first key present, init_config before instance.
ResolveTimeoutInitConfigFirst(ic, inst) ==
    LET t == IF Present(ic.timeout) THEN ic.timeout[1]
             ELSE IF Present(ic.default_timeout) THEN ic.default_timeout[1]
             ELSE IF Present(inst.timeout) THEN inst.timeout[1]
             ELSE IF Present(inst.default_timeout) THEN inst.default_timeout[1]
             ELSE DEFAULT_TIMEOUT
    IN  <<t, t>>

\* The first key present in the order instance timeout, instance
\* default_timeout, init_config timeout, init_config default_timeout, else
\* the default; the same value for connect and read.
ResolveTimeout(ic, inst) ==
    LET t == IF Present(inst.timeout) THEN inst.timeout[1]
             ELSE IF Present(inst.default_timeout) THEN inst.default_timeout[1]
             ELSE IF Present(ic.timeout) THEN ic.timeout[1]
             ELSE IF Present(ic.default_timeout) THEN ic.default_timeout[1]
             ELSE DEFAULT_TIMEOUT
    IN  <<t, t>>

NoKeys == [timeout |-> Unset, default_timeout |-> Unset]

\* The configurations of the unit tests and the timeout each asserts.
TimeoutTests ==
    { [init_config |-> NoKeys, instance |-> NoKeys, expected |-> <<5, 5>>],
      [init_config |-> [NoKeys EXCEPT !.default_timeout = Set(2)],
       instance |-> NoKeys, expected |-> <<2, 2>>],
      [init_config |-> [NoKeys EXCEPT !.timeout = Set(7)],
       instance |-> NoKeys, expected |-> <<7, 7>>],
      [init_config |-> [NoKeys EXCEPT !.default_timeout = Set(9)],
       instance |-> [NoKeys EXCEPT !.default_timeout = Set(13)], expected |-> <<13, 13>>],
      [init_config |-> NoKeys,
       instance |-> [NoKeys EXCEPT !.timeout = Set(15)], expected |-> <<15, 15>>] }

IdleTimeout ==
    /\ init_config = NoKeys
    /\ instance = NoKeys
    /\ http_timeout = <<>>
    /\ tpc = "off"

InitTimeout ==
    /\ init_config \in TimeoutKeys
    /\ instance \in TimeoutKeys
    /\ http_timeout = <<>>
    /\ tpc = "start"

\* The check is constructed and run once: the HTTP wrapper gets its timeout.
ConfigureTimeout ==
    /\ tpc = "start"
    /\ http_timeout' = ResolveTimeout(init_config, instance)
    /\ tpc' = "resolved"
    /\ UNCHANGED <<init_config, instance>>
    /\ UNCHANGED otherThanTimeout

NextTimeout == ConfigureTimeout

\* C7: the effective (connect, read) timeout is the first value present among
\* instance timeout, instance default_timeout, init_config timeout, init_config
\* default_timeout, else 5: an instance key overrides both init_config keys,
\* timeout overrides default_timeout at the same level, and nothing set gives
\* (5, 5); the unit tests' expectations agree.
C7_TimeoutPrecedence ==
    /\ \A t \in TimeoutTests : ResolveTimeout(t.init_config, t.instance) = t.expected
    /\ tpc = "resolved" =>
          /\ Len(http_timeout) = 2
          /\ http_timeout[1] = http_timeout[2]
          /\ Present(instance.timeout) => http_timeout[1] = instance.timeout[1]
          /\ (~Present(instance.timeout) /\ Present(instance.default_timeout))
                => http_timeout[1] = instance.default_timeout[1]
          /\ (instance = NoKeys /\ Present(init_config.timeout))
                => http_timeout[1] = init_config.timeout[1]
          /\ (instance = NoKeys /\ ~Present(init_config.timeout)
                 /\ Present(init_config.default_timeout))
                => http_timeout[1] = init_config.default_timeout[1]
          /\ (instance = NoKeys /\ init_config = NoKeys)
                => http_timeout = <<DEFAULT_TIMEOUT, DEFAULT_TIMEOUT>>

\* The instance's legacy key has beaten both init_config keys.
C7_Witness ==
    /\ tpc = "resolved"
    /\ instance = [timeout |-> Unset, default_timeout |-> Set(13)]
    /\ init_config = [timeout |-> Set(7), default_timeout |-> Set(9)]
    /\ http_timeout = <<13, 13>>

(***************************************************************************)
(* Specifications                                                          *)
(***************************************************************************)
Init ==
    InitCheck /\ IdleIter /\ IdleRedact /\ IdleOverview /\ IdleRatio /\ IdleTimeout

Spec == Init /\ [][Next]_vars

InitIterRows ==
    IdleCheck /\ InitIter /\ IdleRedact /\ IdleOverview /\ IdleRatio /\ IdleTimeout

SpecIter == InitIterRows /\ [][NextIter]_vars

InitRedaction ==
    IdleCheck /\ IdleIter /\ InitRedact /\ IdleOverview /\ IdleRatio /\ IdleTimeout

SpecRedact == InitRedaction /\ [][NextRedact]_vars

InitConnectionOverview ==
    IdleCheck /\ IdleIter /\ IdleRedact /\ InitOverview /\ IdleRatio /\ IdleTimeout

SpecConn == InitConnectionOverview /\ [][NextOverview]_vars

InitMetricRows ==
    IdleCheck /\ IdleIter /\ IdleRedact /\ IdleOverview /\ InitRatio /\ IdleTimeout

SpecRatio == InitMetricRows /\ [][NextRatio]_vars

InitTimeoutConfig ==
    IdleCheck /\ IdleIter /\ IdleRedact /\ IdleOverview /\ IdleRatio /\ InitTimeout

SpecTimeout == InitTimeoutConfig /\ [][NextTimeout]_vars

====
